---- MODULE Spec2Model ----
(***************************************************************************)
(* tidit: an Obsidian plugin that inserts a formatted timestamp into the   *)
(* previous line when Enter is released.                                   *)
(*                                                                         *)
(* Four specifications share this module.                                  *)
(*   SpecResolver  the pure decision function of utils.ts                  *)
(*                 (getInsertPositionInLineFromText and its helpers),      *)
(*                 applied to bounded inputs, followed by the insertion of *)
(*                 the timestamp it asks for and a second evaluation.      *)
(*   SpecResolverRaise  the same, with a pattern on which the strict parse *)
(*                 of the library raises.                                  *)
(*   SpecZone      the time zone settings and getFormattedTimestamp.       *)
(*   Spec          the plugin object of main.ts: settings, the cooldown    *)
(*                 state, the documents and the keyup handler.             *)
(*                                                                         *)
(* A text is a sequence of one-character strings.  Offsets returned by the *)
(* code are 0-based, TLA+ sequences are 1-based: offset p is the position  *)
(* before element p + 1.                                                   *)
(***************************************************************************)
EXTENDS Integers, Sequences, FiniteSets, TLC

VARIABLES
    \* ---- the clock both specifications read (milliseconds since the epoch)
    now,
    \* ---- SpecResolver: the arguments of getInsertPositionInLineFromText
    lineText, addTimestampToListLines, timestampFormat,
    \* ---- SpecResolver: where the evaluation stands and what it returned
    phase, pos, afterBullet, pos2, suffixNewline,
    \* ---- Spec: TiditPlugin's fields and the host's state
    settings, lastTimeStampInsertTimestamp, currFileName,
    workspace, doc, cursor, savesInFlight,
    \* ---- Spec: how the keyup handler left in the step just taken ("none" if
    \* the step was not a keyup), the document the last trigger that looked at
    \* the active file saw, and the instant of the last automatic insertion
    \* that no change of document and no settings save has followed
    outcome, seenFile, guardedSince,
    \* ---- SpecZone: the moment getFormattedTimestamp formatted last under
    \* the settings as they are
    rendered

resolverVars == <<lineText, addTimestampToListLines, timestampFormat,
                  phase, pos, afterBullet, pos2, suffixNewline>>
pluginVars == <<settings, lastTimeStampInsertTimestamp, currFileName,
                workspace, doc, cursor, savesInFlight,
                outcome, seenFile, guardedSince>>
zoneVars == <<rendered>>
vars == <<now, resolverVars, pluginVars, zoneVars>>

(***************************************************************************)
(* Bounds of the model.                                                    *)
(***************************************************************************)
\* longest line the resolver is given, in characters, beside the test lines
MaxLen == 3
\* how many hours the clock may advance between an insertion and the next
\* evaluation of the resolver
MaxHourTicks == 2
\* how many half seconds the plugin's clock may advance
MaxTicks == 1
\* a document's line count beyond which no Enter is typed and nothing inserted
MaxDocLines == 2
\* a line's length beyond which nothing is inserted into it
MaxLineLen == 3
\* settings saves that may be awaiting their write at once
MaxSaves == 1

(***************************************************************************)
(* Characters and texts.                                                   *)
(***************************************************************************)
DigitChars == <<"0", "1", "2", "3", "4", "5", "6", "7", "8", "9">>
Digits == {DigitChars[i] : i \in 1..10}
\* the characters JavaScript's \s matches that a single line can hold
WhiteSpace == {" ", "\t"}

\* the backquote character U+0060, which a TLA+ string cannot hold
BQ == "bq"

IsDigit(c) == c \in Digits
IsSpace(c) == c \in WhiteSpace

Min(a, b) == IF a < b THEN a ELSE b
Max(a, b) == IF a > b THEN a ELSE b

\* String.prototype.substring(a, b) for 0 <= a <= b: clamped to the text
Substring(s, a, b) == SubSeq(s, Min(a, Len(s)) + 1, Min(b, Len(s)))

\* text with `ins` inserted at 0-based offset p (editor.replaceRange at a point)
InsertAt(s, p, ins) == SubSeq(s, 1, p) \o ins \o SubSeq(s, p + 1, Len(s))

\* first position >= i (1-based) that holds no white space; Len(s) + 1 if none
RECURSIVE SkipSpaces(_, _)
SkipSpaces(s, i) ==
    IF i <= Len(s) /\ IsSpace(s[i]) THEN SkipSpaces(s, i + 1) ELSE i

\* first position >= i (1-based) that holds no digit; Len(s) + 1 if none
RECURSIVE SkipDigits(_, _)
SkipDigits(s, i) ==
    IF i <= Len(s) /\ IsDigit(s[i]) THEN SkipDigits(s, i + 1) ELSE i

\* first position >= i (1-based) that holds c; Len(s) + 1 if none
RECURSIVE IndexOf(_, _, _)
IndexOf(s, c, i) ==
    IF i <= Len(s) /\ s[i] # c THEN IndexOf(s, c, i + 1) ELSE i

\* String.prototype.trim()
RECURSIVE TrimEnd(_)
TrimEnd(s) ==
    IF Len(s) > 0 /\ IsSpace(s[Len(s)]) THEN TrimEnd(SubSeq(s, 1, Len(s) - 1)) ELSE s
Trim(s) == TrimEnd(SubSeq(s, SkipSpaces(s, 1), Len(s)))

\* String.prototype.startsWith / endsWith
StartsWith(s, p) == Len(s) >= Len(p) /\ SubSeq(s, 1, Len(p)) = p
EndsWith(s, p) == Len(s) >= Len(p) /\ SubSeq(s, Len(s) - Len(p) + 1, Len(s)) = p

(***************************************************************************)
(* moment: formatting an instant with a pattern, and the strict parse of a *)
(* text against a pattern.  A pattern is the sequence of tokens moment     *)
(* splits the format string into.  The model keeps three kinds of token:   *)
(*   "HH"   a fixed-width numeric field (two digits, zero padded), as      *)
(*          YYYY, MM, DD, HH, mm, ss are;                                  *)
(*   "H"    a variable-width numeric field (one or two digits), as M, D,   *)
(*          H, h, m, s are;                                                *)
(*   "lit"  one literal character (punctuation, or escaped text [x]).      *)
(* The field shown is the hour of the instant.                             *)
(***************************************************************************)
TokHH == [k |-> "HH", c |-> ""]
TokH == [k |-> "H", c |-> ""]
Lit(ch) == [k |-> "lit", c |-> ch]
\* a malformed element of a pattern; format() renders it as it stands
TokBad == [k |-> "bad", c |-> "?"]

MsPerSecond == 1000
MsPerHour == 3600 * MsPerSecond
HourOf(t) == (t \div MsPerHour) % 24
ClockAt(h) == h * MsPerHour

DigitVal(ch) == CHOOSE d \in 0..9 : DigitChars[d + 1] = ch
\* a number below 100 without padding, and padded to two digits
NumStr(n) == IF n < 10 THEN <<DigitChars[n + 1]>>
             ELSE <<DigitChars[(n \div 10) + 1], DigitChars[(n % 10) + 1]>>
Pad2(n) == <<DigitChars[(n \div 10) + 1], DigitChars[(n % 10) + 1]>>

FormatToken(tok, t) ==
    CASE tok.k = "HH" -> Pad2(HourOf(t))
      [] tok.k = "H" -> NumStr(HourOf(t))
      [] OTHER -> <<tok.c>>

\* moment(t).format(fmt)
RECURSIVE MomentFormat(_, _)
MomentFormat(fmt, t) ==
    IF fmt = <<>> THEN <<>>
    ELSE FormatToken(Head(fmt), t) \o MomentFormat(Tail(fmt), t)

\* the largest hour moment's overflow check lets through
MaxHourField == 24

(* moment(str, fmt, true): the tokens are matched one after the other, each *)
(* taking the longest text its own pattern allows, with no backtracking; in *)
(* strict mode the parse is valid only if every token matched, no input was *)
(* skipped or left over, the field is in range, and at least one date field *)
(* was read (a pattern of literals alone never yields a valid moment).      *)
RECURSIVE ParseTokens(_, _, _, _)
ParseTokens(str, i, fmt, parsedAny) ==
    IF fmt = <<>> THEN i = Len(str) + 1 /\ parsedAny
    ELSE LET tok == Head(fmt) IN
      CASE tok.k = "lit" ->
             /\ i <= Len(str)
             /\ str[i] = tok.c
             /\ ParseTokens(str, i + 1, Tail(fmt), parsedAny)
        [] tok.k = "HH" ->
             /\ i + 1 <= Len(str)
             /\ IsDigit(str[i]) /\ IsDigit(str[i + 1])
             /\ 10 * DigitVal(str[i]) + DigitVal(str[i + 1]) <= MaxHourField
             /\ ParseTokens(str, i + 2, Tail(fmt), TRUE)
        [] OTHER ->
             /\ i <= Len(str)
             /\ IsDigit(str[i])
             /\ IF i + 1 <= Len(str) /\ IsDigit(str[i + 1])
                THEN /\ 10 * DigitVal(str[i]) + DigitVal(str[i + 1]) <= MaxHourField
                     /\ ParseTokens(str, i + 2, Tail(fmt), TRUE)
                ELSE ParseTokens(str, i + 1, Tail(fmt), TRUE)

\* a pattern the library cannot process: the strict parse of any text
\* against it raises
Raises(fmt) == \E k \in 1..Len(fmt) : fmt[k].k = "bad"

\* the result of the strict parse as the callers see it: a failed parse is
\* reported through isValid(); "throws" is the outcome the callers' catch
\* clause is written for
MomentStrictParse(str, fmt) ==
    IF Raises(fmt) THEN "throws"
    ELSE IF ParseTokens(str, 1, fmt, FALSE) THEN "valid" ELSE "invalid"

(***************************************************************************)
(* utils.ts: the line classifier.                                          *)
(***************************************************************************)
BulletChars == {"-", "*", "+"}
OrderedEnds == {".", ")"}

\* /^\s*([-*+]|\d+[\.\)])/ : the 1-based position after the marker, 0 if
\* the line does not start with (indentation and) a marker
MarkerEnd(line) ==
    LET i == SkipSpaces(line, 1) IN
    IF i > Len(line) THEN 0
    ELSE IF line[i] \in BulletChars THEN i + 1
    ELSE IF IsDigit(line[i])
         THEN LET j == SkipDigits(line, i) IN
              IF j <= Len(line) /\ line[j] \in OrderedEnds THEN j + 1 ELSE 0
    ELSE 0

\* LIST_BULLET_REGEX = /^\s*([-*+]|\d+[\.\)])\s+/ : the length of the match
\* (it starts at index 0), or -1 if the line does not match
LIST_BULLET_REGEX(line) ==
    LET m == MarkerEnd(line) IN
    IF m = 0 \/ m > Len(line) \/ ~IsSpace(line[m]) THEN -1
    ELSE SkipSpaces(line, m) - 1

\* LIST_TASK_REGEX = /^\s*([-*+]|\d+[\.\)])\s+\[[^\]]*\]\s/ : whether it matches
LIST_TASK_REGEX(line) ==
    LET m == MarkerEnd(line) IN
    /\ m # 0 /\ m <= Len(line) /\ IsSpace(line[m])
    /\ LET b == SkipSpaces(line, m) IN
       /\ b <= Len(line) /\ line[b] = "["
       /\ LET e == IndexOf(line, "]", b + 1) IN
          e + 1 <= Len(line) /\ IsSpace(line[e + 1])

isCursorInListLine(line) == LIST_BULLET_REGEX(line) # -1

\* the task check for the markers -, * and + alone
isListLineTask_UnorderedOnly(line) ==
    /\ LIST_TASK_REGEX(line)
    /\ line[SkipSpaces(line, 1)] \in BulletChars

isListLineTask(line) == LIST_TASK_REGEX(line)

\* the index after the marker and one white space
getInsertPositionAfterBullet_OneSpace(line) ==
    IF LIST_BULLET_REGEX(line) = -1 THEN -1 ELSE MarkerEnd(line)

getInsertPositionAfterBullet(line) == LIST_BULLET_REGEX(line)

\* the fence check of the start of the line alone
isCodeBlockStartEnd_StartOnly(line) == StartsWith(line, <<BQ>>)

\* main.ts isCodeBlockStartEnd, the predicate the resolver is handed
isCodeBlockStartEnd(line) ==
    StartsWith(line, <<BQ>>) \/ EndsWith(line, <<BQ, BQ, BQ>>)

(***************************************************************************)
(* utils.ts: the insertion offset resolver.  t is the instant moment()     *)
(* returns while it runs.                                                  *)
(***************************************************************************)
\* the duplicate check made at the start of the line, whatever the offset
DuplicateCheck_FromLineStart(line, insertPosition, fmt, t) ==
    LET formattedTimestampLength == Len(MomentFormat(fmt, t))
        matchTimeStamp == MomentStrictParse(
            Substring(line, 0, formattedTimestampLength), fmt)
    IN  IF matchTimeStamp = "invalid" THEN insertPosition ELSE -1

\* the duplicate check made on the trimmed line
DuplicateCheck_Trimmed(line, insertPosition, fmt, t) ==
    LET formattedTimestampLength == Len(MomentFormat(fmt, t))
        matchTimeStamp == MomentStrictParse(
            Substring(Trim(line), insertPosition,
                      insertPosition + formattedTimestampLength), fmt)
    IN  IF matchTimeStamp = "invalid" THEN insertPosition ELSE -1

\* the duplicate check and the return that follow the three classifier
\* checks, for the candidate offset they left
DuplicateCheck(line, insertPosition, fmt, t) ==
    LET formattedTimestampLength == Len(MomentFormat(fmt, t))
        matchTimeStamp == MomentStrictParse(
            Substring(line, insertPosition, insertPosition + formattedTimestampLength),
            fmt)
    IN  CASE matchTimeStamp = "throws" -> -1
          [] matchTimeStamp = "valid" -> -1
          [] OTHER -> insertPosition

\* the resolver without the check of the flag
getInsertPositionInLineFromText_IgnoresFlag(line, addToListLines, fmt, t) ==
    IF isListLineTask(line) THEN -1
    ELSE IF isCodeBlockStartEnd(line) THEN -1
    ELSE DuplicateCheck(line, IF isCursorInListLine(line)
                              THEN getInsertPositionAfterBullet(line) ELSE 0,
                        fmt, t)

getInsertPositionInLineFromText(line, addToListLines, fmt, t) ==
    IF isListLineTask(line) THEN -1
    ELSE IF isCursorInListLine(line) /\ ~addToListLines THEN -1
    ELSE IF isCodeBlockStartEnd(line) THEN -1
    ELSE DuplicateCheck(line,
                        IF isCursorInListLine(line)
                        THEN getInsertPositionAfterBullet(line) ELSE 0,
                        fmt, t)

(***************************************************************************)
(* main.ts: the plugin's own classifier, resolver and formatter.           *)
(***************************************************************************)
\* TiditPlugin.isCursorInListLine: /^\s*[-*+]\s/ or /^\s*\d+\.\s/
Plugin_isCursorInListLine(line) ==
    LET i == SkipSpaces(line, 1)
        j == SkipDigits(line, i)
    IN  \/ /\ i + 1 <= Len(line)
           /\ line[i] \in BulletChars
           /\ IsSpace(line[i + 1])
        \/ /\ j > i
           /\ j + 1 <= Len(line)
           /\ line[j] = "."
           /\ IsSpace(line[j + 1])

\* TiditPlugin.getInsertPositionInLine, for the text getLine returned
getInsertPositionInLine(line, fmt, t) ==
    IF Plugin_isCursorInListLine(line) THEN -1
    ELSE IF isCodeBlockStartEnd(line) THEN -1
    ELSE LET formattedTimestampLength == Len(MomentFormat(fmt, t))
             matchTimeStamp == MomentStrictParse(
                 Substring(Trim(line), 0, formattedTimestampLength), fmt)
         IN  CASE matchTimeStamp = "throws" -> -1
               [] matchTimeStamp = "valid" -> -1
               [] OTHER -> 0

MsPerMinute == 60 * MsPerSecond
\* the offset from UTC of the system's zone, in minutes
LocalUtcOffset == 120
\* the offsets of the zones of the dropdown the model keeps
Zones == {"local", "UTC", "Asia/Tokyo"}
ZoneOffset(zone) ==
    CASE zone = "local" -> LocalUtcOffset
      [] zone = "UTC" -> 0
      [] zone = "Asia/Tokyo" -> 9 * 60

\* the manual offset taken as minutes whatever its size
UtcOffsetInput_Minutes(n) == n

\* moment.utcOffset(n) for a number: below 16 and above -16 it is taken as
\* hours, otherwise as minutes
UtcOffsetInput(n) == IF -16 < n /\ n < 16 THEN n * 60 ELSE n

\* timestampMoment of getFormattedTimestamp at instant t: the instant and the
\* offset from UTC it is shown with
timestampMoment(st, t) ==
    LET zoned == IF st.timezone # "local" /\ st.timezone # "UTC"
                 THEN ZoneOffset(st.timezone)
                 ELSE IF st.timezone = "UTC" THEN 0
                 ELSE LocalUtcOffset
    IN  [instant |-> t,
         utcOffset |-> IF st.useManualTimezoneOffset /\ st.timezoneOffset # 0
                       THEN UtcOffsetInput(st.timezoneOffset)
                       ELSE zoned]

\* m.format(fmt): MomentFormat shows an instant in the system's zone
ZonedFormat(m, fmt) ==
    MomentFormat(fmt, m.instant + (m.utcOffset - LocalUtcOffset) * MsPerMinute)

\* TiditPlugin.getFormattedTimestamp at instant t
getFormattedTimestamp(st, t) ==
    ZonedFormat(timestampMoment(st, t), st.timestampFormat)
        \o (IF st.insertNewLineAfterTimestamp THEN <<"\n">> ELSE <<" ">>)

(***************************************************************************)
(* The host: documents, the editor, the workspace.  The plugin sees one    *)
(* editor at a time, the active one: doc is the text it holds, a sequence  *)
(* of lines, and cursor the position in it, both 0-based.                  *)
(***************************************************************************)
\* three documents; f3 lies in another folder than f1 and has its file name
Files == {"f1", "f2", "f3"}
FileName(f) == IF f = "f2" THEN "b.md" ELSE "a.md"
NoEditor == "no editor"
NoFile == "no file"
Workspaces == Files \cup {NoEditor, NoFile}

\* the text a document holds when it gets the focus
InitialDoc(w) ==
    IF w = "f2" THEN << <<"-", " ", "a">> >>
    ELSE IF w \in Files THEN << <<"a">> >>
    ELSE << >>
Origin == [line |-> 0, ch |-> 0]

\* editor.replaceRange(text, {line, ch}) where text holds at most a final
\* newline
ReplaceRange(d, line, ch, text) ==
    LET old == d[line + 1]
        p == Min(ch, Len(old))
        before == SubSeq(d, 1, line)
        after == SubSeq(d, line + 2, Len(d))
    IN  IF Len(text) > 0 /\ text[Len(text)] = "\n"
        THEN before
             \o << SubSeq(old, 1, p) \o SubSeq(text, 1, Len(text) - 1),
                   SubSeq(old, p + 1, Len(old)) >>
             \o after
        ELSE before \o << InsertAt(old, p, text) >> \o after

\* where the editor leaves a cursor that stood at cur when text went in at
\* (line, ch): what lies behind the insertion point moves with the text
MapCursor(cur, line, ch, text) ==
    LET newline == Len(text) > 0 /\ text[Len(text)] = "\n" IN
    IF cur.line < line \/ (cur.line = line /\ cur.ch <= ch) THEN cur
    ELSE IF cur.line > line
         THEN [line |-> cur.line + (IF newline THEN 1 ELSE 0), ch |-> cur.ch]
    ELSE IF newline
         THEN [line |-> cur.line + 1, ch |-> cur.ch - ch]
    ELSE [line |-> cur.line, ch |-> cur.ch + Len(text)]

\* the model lets text into a line of a document only while both are small
HasRoom(d, line) ==
    /\ Len(d) <= MaxDocLines
    /\ line < Len(d)
    /\ Len(d[line + 1]) <= MaxLineLen

(***************************************************************************)
(* main.ts: the plugin object.                                             *)
(***************************************************************************)
\* moment(0)
Epoch == 0
\* DEFAULT_SETTINGS; the default pattern YYYY-MM-DD HH:mm:ssZ has fixed width
DEFAULT_SETTINGS ==
    [tiditOn |-> TRUE,
     timestampFormat |-> <<TokHH>>,
     addAfterDelay |-> 60,
     insertNewLineAfterTimestamp |-> FALSE,
     timezone |-> "local",
     useManualTimezoneOffset |-> FALSE,
     timezoneOffset |-> 0]

\* NaN, which is no integer: kept apart from every number an entry parses to
NaN == -1000000

\* the value of the digits of s from index i on, after the value acc
RECURSIVE DigitsValue(_, _, _)
DigitsValue(s, i, acc) ==
    IF i > Len(s) \/ ~IsDigit(s[i]) THEN acc
    ELSE DigitsValue(s, i + 1, 10 * acc + DigitVal(s[i]))

\* Number.parseInt(value) / parseInt(value): white space, a sign, then the
\* digits up to the first character that is none; NaN without a digit
ParseInt(value) ==
    LET i == SkipSpaces(value, 1)
        signed == i <= Len(value) /\ value[i] \in {"-", "+"}
        j == IF signed THEN i + 1 ELSE i
    IN  IF j > Len(value) \/ ~IsDigit(value[j]) THEN NaN
        ELSE IF signed /\ value[i] = "-" THEN -DigitsValue(value, j, 0)
        ELSE DigitsValue(value, j, 0)

\* the texts typed into the delay field
DelayEntries ==
    { <<"0">>, <<"1">>, <<"-", "1">>, <<"1", "2", "3", "5">>, <<"a">> }

\* a.diff(b, "seconds"): whole seconds, truncated towards zero
DiffSeconds(a, b) ==
    IF a >= b THEN (a - b) \div MsPerSecond ELSE -((b - a) \div MsPerSecond)

\* the delay check with the elapsed time left in milliseconds
RateGuarded_Milliseconds(t, last, delay) == t - last < delay

\* the delay check of the keyup handler
RateGuarded(t, last, delay) ==
    delay # NaN /\ DiffSeconds(t, last) < delay

TickMs == MsPerSecond \div 2
StartMs == ClockAt(9)
\* no such instant
None == {}

\* every step that is not a keyup
NoKeyUp == outcome' = "none"

Tick ==
    /\ now < StartMs + MaxTicks * TickMs
    /\ now' = now + TickMs
    /\ NoKeyUp
    /\ UNCHANGED <<resolverVars, zoneVars, settings, lastTimeStampInsertTimestamp,
                   currFileName, workspace, doc, cursor, savesInFlight,
                   seenFile, guardedSince>>

\* the user opens or focuses another document, or none
OpenFile(w) ==
    /\ w # workspace
    /\ workspace' = w
    /\ doc' = InitialDoc(w)
    /\ cursor' = Origin
    /\ guardedSince' = None
    /\ NoKeyUp
    /\ UNCHANGED <<now, resolverVars, zoneVars,
                   settings, lastTimeStampInsertTimestamp,
                   currFileName, savesInFlight, seenFile>>

\* the editor's own handling of Enter: the line breaks at the cursor
TypeEnter ==
    /\ workspace \in Files
    /\ Len(doc) < MaxDocLines
    /\ doc' = ReplaceRange(doc, cursor.line, cursor.ch, <<"\n">>)
    /\ cursor' = [line |-> cursor.line + 1, ch |-> 0]
    /\ NoKeyUp
    /\ UNCHANGED <<now, resolverVars, zoneVars,
                   settings, lastTimeStampInsertTimestamp,
                   currFileName, workspace, savesInFlight, seenFile,
                   guardedSince>>

\* leaving without an editor or a file, the fields reset on the way
Leave_ResetsWithoutFile(how) ==
    /\ outcome' = how
    /\ IF how \in {"noEditor", "noFile"}
       THEN currFileName' = "" /\ lastTimeStampInsertTimestamp' = Epoch
       ELSE UNCHANGED <<lastTimeStampInsertTimestamp, currFileName>>
    /\ UNCHANGED <<doc, cursor, seenFile, guardedSince>>

\* leaving while switched off, the cooldown reset on the way
Leave_OffResets(how) ==
    /\ outcome' = how
    /\ lastTimeStampInsertTimestamp' =
          IF how = "off" THEN Epoch ELSE lastTimeStampInsertTimestamp
    /\ UNCHANGED <<currFileName, doc, cursor, seenFile, guardedSince>>

\* how the keyup handler leaves without touching the plugin's fields
Leave(how) ==
    /\ outcome' = how
    /\ UNCHANGED <<lastTimeStampInsertTimestamp, currFileName, doc, cursor,
                   seenFile, guardedSince>>

\* a return behind the file check that also records the current time
Skip_Advances(how, last) ==
    /\ outcome' = how
    /\ lastTimeStampInsertTimestamp' = now
    /\ UNCHANGED <<doc, cursor, guardedSince>>

\* how the keyup handler returns behind the file check (the delay check, the
\* -1 of getInsertPositionInLine, a getLine that raised): last is the instant
\* the file check left
Skip(how, last) ==
    /\ outcome' = how
    /\ lastTimeStampInsertTimestamp' = last
    /\ UNCHANGED <<doc, cursor, guardedSince>>

\* the keyup handler registered in onload.  lineThrows: whether the editor's
\* getLine raises when asked for line -1 (the cursor is on the first line),
\* the alternative being that it returns the empty text
KeyUp(key, lineThrows) ==
    /\ UNCHANGED <<now, resolverVars, zoneVars,
                   settings, workspace, savesInFlight>>
    /\ IF ~settings.tiditOn THEN Leave("off")
       ELSE IF key # "Enter" THEN Leave("notEnter")
       ELSE IF workspace = NoEditor THEN Leave("noEditor")
       ELSE IF workspace = NoFile THEN Leave("noFile")
       ELSE
         LET changed == currFileName # FileName(workspace)
             last == IF changed THEN Epoch ELSE lastTimeStampInsertTimestamp
             prevLine == cursor.line - 1
             prevText == IF prevLine >= 0 THEN doc[prevLine + 1] ELSE <<>>
             p == getInsertPositionInLine(prevText,
                                          settings.timestampFormat, now)
             timestamp == getFormattedTimestamp(settings, now)
             target == Max(0, prevLine)
         IN  /\ currFileName' = FileName(workspace)
             /\ seenFile' = workspace
             /\ IF RateGuarded(now, last, settings.addAfterDelay)
                THEN Skip("rateGuarded", last)
                ELSE IF prevLine < 0 /\ lineThrows
                THEN Skip("threw", last)
                ELSE IF p = -1
                THEN Skip("skipLine", last)
                ELSE /\ HasRoom(doc, target)
                     /\ outcome' = "inserted"
                     /\ doc' = ReplaceRange(doc, target, p, timestamp)
                     /\ cursor' = MapCursor(cursor, target, p, timestamp)
                     /\ lastTimeStampInsertTimestamp' = now
                     /\ guardedSince' = {now}

\* command "on-off" (an editor callback)
CommandOnOff ==
    /\ workspace # NoEditor
    /\ settings' = [settings EXCEPT !.tiditOn = ~settings.tiditOn]
    /\ NoKeyUp
    /\ UNCHANGED <<now, resolverVars, zoneVars,
                   lastTimeStampInsertTimestamp,
                   currFileName, workspace, doc, cursor, savesInFlight,
                   seenFile, guardedSince>>

\* command "insert-timestamp" (an editor callback)
CommandInsertTimestamp ==
    /\ workspace \in Files
    /\ HasRoom(doc, cursor.line)
    /\ LET timestamp == getFormattedTimestamp(settings, now)
           doc2 == ReplaceRange(doc, cursor.line, cursor.ch, timestamp)
       IN  /\ doc' = doc2
           \* editor.setCursor(cursor.line, timestamp.length + cursor.ch),
           \* which the editor clips to the end of that line
           /\ cursor' = [line |-> cursor.line,
                         ch |-> Min(Len(timestamp) + cursor.ch,
                                    Len(doc2[cursor.line + 1]))]
    /\ NoKeyUp
    /\ UNCHANGED <<now, resolverVars, zoneVars,
                   settings, lastTimeStampInsertTimestamp,
                   currFileName, workspace, savesInFlight, seenFile,
                   guardedSince>>

\* settings tab, "Tidit on/off": no save
SetTiditOn(value) ==
    /\ value # settings.tiditOn
    /\ settings' = [settings EXCEPT !.tiditOn = value]
    /\ NoKeyUp
    /\ UNCHANGED <<now, resolverVars, zoneVars,
                   lastTimeStampInsertTimestamp,
                   currFileName, workspace, doc, cursor, savesInFlight,
                   seenFile, guardedSince>>

\* settings tab, "Insert new line after timestamp": no save
SetInsertNewLine(value) ==
    /\ value # settings.insertNewLineAfterTimestamp
    /\ settings' = [settings EXCEPT !.insertNewLineAfterTimestamp = value]
    /\ NoKeyUp
    /\ UNCHANGED <<now, resolverVars, zoneVars,
                   lastTimeStampInsertTimestamp,
                   currFileName, workspace, doc, cursor, savesInFlight,
                   seenFile, guardedSince>>

\* "Max is 1234 seconds"
MaxDelay == 1234
\* the delay with both ends clamped
ClampDelay_BothEnds(parsed) ==
    IF parsed = NaN THEN NaN ELSE Max(0, Min(parsed, MaxDelay))

\* Math.max(Math.min(parsed, 1234)): Math.min of NaN is NaN, and Math.max of
\* one argument is that argument
ClampDelay(parsed) ==
    IF parsed = NaN THEN NaN ELSE Min(parsed, MaxDelay)

\* settings tab, "Add timestamp after delay", up to the await in saveSettings
SetDelay(value) ==
    /\ savesInFlight < MaxSaves
    /\ settings' = [settings EXCEPT
                       !.addAfterDelay = ClampDelay(ParseInt(value))]
    /\ savesInFlight' = savesInFlight + 1
    /\ guardedSince' = None
    /\ NoKeyUp
    /\ UNCHANGED <<now, resolverVars, zoneVars,
                   lastTimeStampInsertTimestamp,
                   currFileName, workspace, doc, cursor, seenFile>>

\* saveSettings after saveData resolved: resetTimeStampInsertTimestamp
SaveSettingsResume ==
    /\ savesInFlight > 0
    /\ savesInFlight' = savesInFlight - 1
    /\ lastTimeStampInsertTimestamp' = Epoch
    /\ guardedSince' = None
    /\ NoKeyUp
    /\ UNCHANGED <<now, resolverVars, zoneVars,
                   settings, currFileName, workspace,
                   doc, cursor, seenFile>>

\* the resolver has not been called: no offset yet
NotCalled == <<>>
\* no timestamp has been formatted under the settings as they are
NotRendered == <<>>

ResolverIdle ==
    /\ lineText = <<>> /\ addTimestampToListLines = FALSE
    /\ timestampFormat = <<TokHH>>
    /\ phase = "idle"
    /\ pos = NotCalled /\ afterBullet = NotCalled /\ pos2 = NotCalled
    /\ suffixNewline = FALSE

\* the state onload leaves
Init ==
    /\ now = StartMs
    /\ settings = DEFAULT_SETTINGS
    /\ workspace \in Workspaces
    /\ currFileName = IF workspace \in Files THEN FileName(workspace) ELSE ""
    /\ lastTimeStampInsertTimestamp = Epoch
    /\ doc = InitialDoc(workspace)
    /\ cursor = Origin
    /\ savesInFlight = 0
    /\ outcome = "none"
    /\ seenFile = workspace
    /\ guardedSince = None
    /\ rendered = NotRendered
    /\ ResolverIdle

Next ==
    \/ Tick
    \/ \E w \in Workspaces : OpenFile(w)
    \/ TypeEnter
    \/ \E key \in {"Enter", "a"}, lineThrows \in BOOLEAN : KeyUp(key, lineThrows)
    \/ CommandOnOff
    \/ CommandInsertTimestamp
    \/ \E value \in BOOLEAN : SetTiditOn(value)
    \/ \E value \in BOOLEAN : SetInsertNewLine(value)
    \/ \E value \in DelayEntries : SetDelay(value)
    \/ SaveSettingsResume

Spec == Init /\ [][Next]_vars

PluginIdle ==
    /\ settings = DEFAULT_SETTINGS
    /\ workspace = NoEditor
    /\ currFileName = ""
    /\ lastTimeStampInsertTimestamp = Epoch
    /\ doc = InitialDoc(NoEditor)
    /\ cursor = Origin
    /\ savesInFlight = 0
    /\ outcome = "none"
    /\ seenFile = NoEditor
    /\ guardedSince = None
    /\ rendered = NotRendered

(***************************************************************************)
(* SpecResolver: the inputs the resolver is applied to.                    *)
(***************************************************************************)
Alphabet == {"-", "1", ".", " ", BQ, "a"}
Texts(n) == UNION {[1..k -> Alphabet] : k \in 0..n}
\* what a short text may be followed by: nothing, a checkbox, a closing fence
Tails == {<<>>, <<"[", "x", "]", " ", "a">>, <<BQ, BQ, BQ>>}

\* the lines of the repository's tests (utils.test.ts), the timestamp of the
\* last three written in the pattern HH
TestLines == {
    <<"-", " ", "i", "t", "e", "m">>,
    <<"*", " ", "i", "t", "e", "m">>,
    <<"+", " ", "i", "t", "e", "m">>,
    <<"1", ".", " ", "i", "t", "e", "m">>,
    <<"2", ")", " ", "i", "t", "e", "m">>,
    <<" ", " ", "3", ".", " ", "i", "t", "e", "m">>,
    <<"n", "o", " ", "b", "u", "l", "l", "e", "t">>,
    <<" ", "-", "n", "o", "t", "a", "l", "i", "s", "t">>,
    <<"-", " ", "[", " ", "]", " ", "t", "a", "s", "k">>,
    <<"*", " ", "[", "x", "]", " ", "d", "o", "n", "e">>,
    <<"+", " ", "[", "c", "u", "s", "t", "o", "m", "]", " ", "c">>,
    <<"1", ".", " ", "[", " ", "]", " ", "n", "u", "m">>,
    <<"2", ")", " ", "[", "x", "]", " ", "n", "u", "m">>,
    <<"3", ".", " ", "n", "o", "t", " ", "a", " ", "t", "a", "s", "k">>,
    <<BQ, BQ, BQ>>,
    <<BQ, "c", "o", "d", "e">>,
    <<"p", "l", "a", "i", "n", " ", "t", "e", "x", "t">>,
    <<"1", "1", " ", "s", "o", "m", "e">>,
    <<"-", " ", "1", "1", " ", "s", "o", "m", "e">>,
    <<"1", ".", " ", "1", "1", " ", "s", "o", "m", "e">> }

Lines == {h \o t : h \in Texts(MaxLen), t \in Tails} \cup TestLines

\* the patterns: fixed width; variable width; literal text alone (no date
\* field: nothing parses against it); a field followed by a dot
Formats == { <<TokHH>>, <<TokH>>, <<Lit("x")>>, <<TokH, Lit(".")>> }

\* the hours the clock shows: from 9, so that a variable-width field grows
FirstHours == {ClockAt(9 + i) : i \in 0..(MaxHourTicks - 1)}

\* the text getFormattedTimestamp appends to the timestamp (main.ts 62-64);
\* a newline ends the line, so what follows it is no longer part of the line
LineAfterInsert(line, p, ts, newline) ==
    IF newline THEN SubSeq(line, 1, p) \o ts
    ELSE InsertAt(line, p, ts \o <<" ">>)

RCall ==
    /\ phase = "input"
    /\ pos' = <<getInsertPositionInLineFromText(
                   lineText, addTimestampToListLines, timestampFormat, now)>>
    /\ afterBullet' = <<getInsertPositionAfterBullet(lineText)>>
    /\ phase' = "called"
    /\ UNCHANGED <<now, lineText, addTimestampToListLines, timestampFormat,
                   pos2, suffixNewline, pluginVars,
                   zoneVars>>

RInsert(newline) ==
    /\ phase = "called"
    /\ pos[1] >= 0
    /\ lineText' = LineAfterInsert(lineText, pos[1],
                                   MomentFormat(timestampFormat, now), newline)
    /\ suffixNewline' = newline
    /\ phase' = "inserted"
    /\ UNCHANGED <<now, addTimestampToListLines, timestampFormat,
                   pos, afterBullet, pos2, pluginVars,
                   zoneVars>>

RTick ==
    /\ phase = "inserted"
    /\ HourOf(now) < 9 + MaxHourTicks
    /\ now' = now + MsPerHour
    /\ UNCHANGED <<resolverVars, pluginVars, zoneVars>>

RRecall ==
    /\ phase = "inserted"
    /\ pos2' = <<getInsertPositionInLineFromText(
                    lineText, addTimestampToListLines, timestampFormat, now)>>
    /\ phase' = "rechecked"
    /\ UNCHANGED <<now, lineText, addTimestampToListLines, timestampFormat,
                   pos, afterBullet, suffixNewline, pluginVars,
                   zoneVars>>

\* time passes behind a call, the line left as it is
RWait ==
    /\ phase = "called"
    /\ HourOf(now) < 9 + MaxHourTicks
    /\ now' = now + MsPerHour
    /\ phase' = "waited"
    /\ UNCHANGED <<lineText, addTimestampToListLines, timestampFormat,
                   pos, afterBullet, pos2, suffixNewline, pluginVars,
                   zoneVars>>

\* the call made again with the arguments of the first
RRepeat ==
    /\ phase = "waited"
    /\ pos2' = <<getInsertPositionInLineFromText(
                    lineText, addTimestampToListLines, timestampFormat, now)>>
    /\ phase' = "repeated"
    /\ UNCHANGED <<now, lineText, addTimestampToListLines, timestampFormat,
                   pos, afterBullet, suffixNewline, pluginVars,
                   zoneVars>>

RInit ==
    /\ now \in FirstHours
    /\ lineText \in Lines
    /\ addTimestampToListLines \in BOOLEAN
    /\ timestampFormat \in Formats
    /\ phase = "input"
    /\ pos = NotCalled /\ afterBullet = NotCalled /\ pos2 = NotCalled
    /\ suffixNewline = FALSE
    /\ PluginIdle

RNext ==
    \/ RCall
    \/ \E newline \in BOOLEAN : RInsert(newline)
    \/ RTick
    \/ RRecall
    \/ RWait
    \/ RRepeat

SpecResolver == RInit /\ [][RNext]_vars

(***************************************************************************)
(* The resolver with the patterns of SpecResolver and a pattern on which   *)
(* the strict parse raises, the case of the catch clause (utils.ts 63-65). *)
(***************************************************************************)
RaisingFormats == { <<TokBad>>, <<TokHH, TokBad>> }

RInitRaise ==
    /\ now \in FirstHours
    /\ lineText \in Lines
    /\ addTimestampToListLines \in BOOLEAN
    /\ timestampFormat \in Formats \cup RaisingFormats
    /\ phase = "input"
    /\ pos = NotCalled /\ afterBullet = NotCalled /\ pos2 = NotCalled
    /\ suffixNewline = FALSE
    /\ PluginIdle

SpecResolverRaise == RInitRaise /\ [][RNext]_vars

(***************************************************************************)
(* What the claims call a bullet line, a task line, a fence boundary and a *)
(* line that is already timestamped, stated on the shape of the text and   *)
(* not by the scan the code makes.                                         *)
(***************************************************************************)
AllSpace(s) == \A k \in 1..Len(s) : s[k] \in {" ", "\t"}
AllDigits(s) == \A k \in 1..Len(s) : s[k] \in Digits

\* -, * or +, or digits followed by . or )
IsMarker(s) ==
    \/ Len(s) = 1 /\ s[1] \in {"-", "*", "+"}
    \/ /\ Len(s) >= 2
       /\ AllDigits(SubSeq(s, 1, Len(s) - 1))
       /\ s[Len(s)] \in {".", ")"}

\* the offsets e such that the line is indentation, a marker and at least
\* one white space up to e, and the white space ends at e
BulletOffsets(line) ==
    { e \in 1..Len(line) :
        /\ e = Len(line) \/ line[e + 1] \notin {" ", "\t"}
        /\ \E i \in 0..e, j \in 0..e :
              /\ i < j /\ j < e
              /\ AllSpace(SubSeq(line, 1, i))
              /\ IsMarker(SubSeq(line, i + 1, j))
              /\ AllSpace(SubSeq(line, j + 1, e)) }

IsBulletLine(line) == BulletOffsets(line) # {}

\* a bullet line whose white space is followed by [, anything but ], then ]
\* and one white space
IsTaskLine(line) ==
    \E e \in BulletOffsets(line) : \E k \in (e + 2)..(Len(line) - 1) :
        /\ line[e + 1] = "["
        /\ line[k] = "]"
        /\ \A n \in (e + 2)..(k - 1) : line[n] # "]"
        /\ line[k + 1] \in {" ", "\t"}

IsFenceBoundary(line) ==
    \/ Len(line) >= 1 /\ line[1] = BQ
    \/ Len(line) >= 3 /\ \A k \in (Len(line) - 2)..Len(line) : line[k] = BQ

\* some text that starts at offset p is a timestamp of the pattern
TimestampedAt(line, p, fmt) ==
    \E k \in 0..Len(line) :
        MomentStrictParse(Substring(line, p, p + k), fmt) = "valid"

\* the offset the resolver starts from: behind the bullet of a list line when
\* timestamps go to list lines, 0 otherwise
CandidateOffset(line, addToListLines) ==
    IF IsBulletLine(line) /\ addToListLines
    THEN CHOOSE e \in BulletOffsets(line) : TRUE
    ELSE 0

Called == phase = "called"

(***************************************************************************)
(* The claims about the resolver, checked under SpecResolver.              *)
(***************************************************************************)
\* C1: whenever the resolver returned an offset p >= 0 and the formatted
\* timestamp with its suffix was inserted at p, the resolver run again on the
\* resulting line with the same configuration returns skip (-1).
C1_Idempotent == phase = "rechecked" => pos2[1] = -1

\* C1, for the patterns of fixed width that hold a date field, the second
\* evaluation finds the timestamp of the first
C1_FixedWidthIdempotent ==
    (phase = "rechecked" /\ timestampFormat = <<TokHH>>) => pos2[1] = -1

\* C4: if the text of the line that starts at the candidate offset and has
\* the length of a formatted timestamp parses strictly as a timestamp of the
\* pattern, the resolver returns skip.
C4_DuplicateDetected ==
    Called =>
      LET p == CandidateOffset(lineText, addTimestampToListLines)
          n == Len(MomentFormat(timestampFormat, now))
      IN  MomentStrictParse(Substring(lineText, p, p + n), timestampFormat)
              = "valid"
          => pos[1] = -1

C4_Witness ==
    /\ Called
    /\ addTimestampToListLines
    /\ lineText = <<"1", ".", " ", "1", "1", " ", "s", "o", "m", "e">>
    /\ timestampFormat = <<TokHH>>
    /\ pos[1] = -1

\* C5: for a task line the resolver returns skip, whatever the flag is.
C5_TaskLineSkipped == (Called /\ IsTaskLine(lineText)) => pos[1] = -1

C5_Witness ==
    /\ Called
    /\ IsTaskLine(lineText)
    /\ addTimestampToListLines
    /\ ~IsFenceBoundary(lineText)
    /\ ~TimestampedAt(lineText,
                      CandidateOffset(lineText, TRUE), timestampFormat)
    /\ pos[1] = -1

\* C6: for a code-fence boundary the resolver returns skip, whether or not
\* the line is a bullet or task line and whatever the flag is.
C6_FenceSkipped == (Called /\ IsFenceBoundary(lineText)) => pos[1] = -1

C6_Witness ==
    /\ Called
    /\ IsFenceBoundary(lineText)
    /\ IsBulletLine(lineText)
    /\ ~IsTaskLine(lineText)
    /\ addTimestampToListLines
    /\ pos[1] = -1

\* C7: for a bullet line that is no task line, no fence boundary and not
\* already timestamped, with the flag on, the resolver returns the index
\* after the marker and all the white space behind it, indentation counted
\* ("- item" 2, "1. item" 3, "  3. item" 5); getInsertPositionAfterBullet
\* returns that index for a bullet line and -1 for every other line.
C7_BulletOffset ==
    Called =>
      /\ IsBulletLine(lineText) => BulletOffsets(lineText) = {afterBullet[1]}
      /\ ~IsBulletLine(lineText) => afterBullet[1] = -1
      /\ ( /\ IsBulletLine(lineText)
           /\ ~IsTaskLine(lineText)
           /\ ~IsFenceBoundary(lineText)
           /\ addTimestampToListLines
           /\ ~TimestampedAt(lineText, CandidateOffset(lineText, TRUE),
                             timestampFormat) )
         => /\ pos[1] = afterBullet[1]
            /\ pos[1] \in BulletOffsets(lineText)
      /\ lineText = <<"-", " ", "i", "t", "e", "m">> => afterBullet[1] = 2
      /\ lineText = <<"1", ".", " ", "i", "t", "e", "m">> => afterBullet[1] = 3
      /\ lineText = <<" ", " ", "3", ".", " ", "i", "t", "e", "m">>
            => afterBullet[1] = 5
      /\ lineText = <<" ", "-", "n", "o", "t", "a", "l", "i", "s", "t">>
            => afterBullet[1] = -1

C7_Witness ==
    /\ Called
    /\ lineText = <<" ", " ", "3", ".", " ", "i", "t", "e", "m">>
    /\ addTimestampToListLines
    /\ pos[1] = 5
    /\ afterBullet[1] = 5

\* C8: for a bullet line, with the flag off, the resolver returns skip.
C8_BulletSkippedWhenOff ==
    (Called /\ IsBulletLine(lineText) /\ ~addTimestampToListLines)
        => pos[1] = -1

C8_Witness ==
    /\ Called
    /\ IsBulletLine(lineText)
    /\ ~IsTaskLine(lineText)
    /\ ~IsFenceBoundary(lineText)
    /\ ~TimestampedAt(lineText, 0, timestampFormat)
    /\ ~addTimestampToListLines
    /\ pos[1] = -1

\* C9: for a line that is no bullet line, no task line, no fence boundary and
\* does not start with a timestamp of the pattern, the resolver returns 0,
\* whatever the flag is.
C9_PlainLineOffsetZero ==
    ( /\ Called
      /\ ~IsBulletLine(lineText)
      /\ ~IsTaskLine(lineText)
      /\ ~IsFenceBoundary(lineText)
      /\ ~TimestampedAt(lineText, 0, timestampFormat) )
    => pos[1] = 0

C9_Witness ==
    /\ Called
    /\ lineText = <<"p", "l", "a", "i", "n", " ", "t", "e", "x", "t">>
    /\ addTimestampToListLines
    /\ pos[1] = 0

\* a pattern against which the strict parse of every text fails: it has no
\* date field, or it is malformed
Unparseable(fmt) ==
    \/ \A k \in 1..Len(fmt) : fmt[k].k = "lit"
    \/ \E k \in 1..Len(fmt) : fmt[k].k = "bad"

\* C10: when the strict parse fails because the pattern is invalid or
\* unparseable, the resolver takes it as "no match" and returns the candidate
\* offset: the failure does not turn the result into skip.
C10_UnparseablePatternInserts ==
    ( /\ Called
      /\ Unparseable(timestampFormat)
      /\ ~IsTaskLine(lineText)
      /\ ~(IsBulletLine(lineText) /\ ~addTimestampToListLines)
      /\ ~IsFenceBoundary(lineText) )
    => /\ pos[1] = CandidateOffset(lineText, addTimestampToListLines)
       /\ pos[1] >= 0

\* C10, for the patterns that have no date field and are well formed, the
\* failed parse is reported as "not valid" and the candidate offset returned
C10_LiteralPatternInserts ==
    ( /\ Called
      /\ \A k \in 1..Len(timestampFormat) : timestampFormat[k].k = "lit"
      /\ ~IsTaskLine(lineText)
      /\ ~(IsBulletLine(lineText) /\ ~addTimestampToListLines)
      /\ ~IsFenceBoundary(lineText) )
    => pos[1] = CandidateOffset(lineText, addTimestampToListLines)

(***************************************************************************)
(* The claims about the keyup handler, checked under Spec.                 *)
(***************************************************************************)
\* the keyup handler ran in the step and got as far as the file check
Triggered ==
    outcome' \in {"rateGuarded", "threw", "skipLine", "inserted"}

\* C2: a keyup that comes less than addAfterDelay whole seconds after the
\* last automatic insertion, with no change of document and no save of the
\* settings in between, inserts nothing; a delay of 0 suppresses no keyup.
C2_RateGuard ==
    [][ /\ ( /\ outcome' # "none"
             /\ \E t \in guardedSince :
                  (now - t) \div MsPerSecond < settings.addAfterDelay )
           => doc' = doc
        /\ outcome' = "rateGuarded" => settings.addAfterDelay # 0 ]_vars

C2_Witness ==
    /\ outcome = "rateGuarded"
    /\ settings.addAfterDelay = 1
    /\ \E t \in guardedSince : now - t = TickMs
    /\ cursor.line = 0

\* C3: when the active document of a keyup differs from the document the
\* previous keyup saw, the last-insertion instant is reset to the epoch
\* before the rate guard, so the first keyup in a newly focused document is
\* never suppressed by an insertion made in another document.
C3_ResetOnDocumentChange ==
    [][ (Triggered /\ workspace # seenFile)
          => /\ outcome' # "rateGuarded"
             /\ outcome' # "inserted"
                    => lastTimeStampInsertTimestamp' = Epoch ]_vars

\* C3, for documents whose names differ, the reset is made
C3_ResetOnNameChange ==
    [][ ( /\ Triggered
          /\ seenFile \in Files
          /\ FileName(workspace) # FileName(seenFile) )
          => /\ outcome' # "rateGuarded"
             /\ outcome' # "inserted"
                    => lastTimeStampInsertTimestamp' = Epoch ]_vars

\* C11: after any sequence of edits of the delay field the stored
\* addAfterDelay is an integer from 0 to 1234: a value above 1234 is stored
\* as 1234, a value below 0 as 0, and a text that is no number leaves the
\* stored value as it was.
C11_DelayInRange ==
    /\ settings.addAfterDelay # NaN
    /\ settings.addAfterDelay \in 0..MaxDelay

\* C11, the upper end: no stored delay is above 1234
C11_DelayAtMostMax ==
    settings.addAfterDelay = NaN \/ settings.addAfterDelay <= MaxDelay

\* C12: a keyup that finds no active editor or no active file has no effect:
\* the text of the document, the instant of the last insertion and the name
\* of the last document seen are unchanged.
C12_NoEditorNoEffect ==
    [][ (outcome' # "none" /\ workspace \in {NoEditor, NoFile})
          => /\ doc' = doc
             /\ lastTimeStampInsertTimestamp' = lastTimeStampInsertTimestamp
             /\ currFileName' = currFileName ]_vars

C12_Witness ==
    /\ outcome = "noFile"
    /\ workspace = NoFile
    /\ lastTimeStampInsertTimestamp # Epoch
    /\ currFileName # ""

\* C13: no keyup is evaluated between the start of a save of the settings
\* and the reset of the cooldown the save makes, so the reset of a save never
\* overwrites the instant of an insertion made after the save began.
C13_NoInterleaving ==
    [][ /\ Triggered => savesInFlight = 0
        /\ (savesInFlight' < savesInFlight /\ guardedSince # None)
             => lastTimeStampInsertTimestamp' = lastTimeStampInsertTimestamp
      ]_vars

\* C15: the instant of the last insertion is set to the current time only by
\* a keyup that inserts: a keyup that ends at the delay check or with -1 from
\* the decision function inserts nothing and does not advance the instant.
C15_AdvancedOnlyOnInsert ==
    [][ /\ outcome' \in {"rateGuarded", "skipLine"}
             => /\ doc' = doc
                /\ lastTimeStampInsertTimestamp'
                       \in {lastTimeStampInsertTimestamp, Epoch}
        /\ ( /\ lastTimeStampInsertTimestamp' # lastTimeStampInsertTimestamp
             /\ lastTimeStampInsertTimestamp' # Epoch )
             => /\ outcome' = "inserted"
                /\ doc' # doc
                /\ lastTimeStampInsertTimestamp' = now ]_vars

C15_Witness ==
    /\ outcome = "skipLine"
    /\ lastTimeStampInsertTimestamp # Epoch
    /\ lastTimeStampInsertTimestamp < now

\* C16: while tiditOn is false no keyup inserts, in any document, for any
\* line and any delay: it changes neither the text nor the instant of the
\* last insertion nor the name of the last document seen.
C16_OffNoEffect ==
    [][ (outcome' # "none" /\ ~settings.tiditOn)
          => /\ outcome' = "off"
             /\ doc' = doc
             /\ lastTimeStampInsertTimestamp' = lastTimeStampInsertTimestamp
             /\ currFileName' = currFileName ]_vars

C16_Witness ==
    /\ outcome = "off"
    /\ workspace \in Files
    /\ currFileName # FileName(workspace)
    /\ lastTimeStampInsertTimestamp # Epoch
    /\ settings.addAfterDelay = 0

\* C14: the resolver is a function of its arguments alone: two calls with
\* the same line, flag, pattern and fence predicate return the same result
\* whenever they are made.
C14_SameArgumentsSameResult == phase = "repeated" => pos2 = pos

\* C14, for the pattern of fixed width the result does not depend on the time
C14_FixedWidthSameResult ==
    (phase = "repeated" /\ timestampFormat = <<TokHH>>) => pos2 = pos

\* C20: getInsertPositionInLine of main.ts returns, for every text of the
\* previous line and every pattern, what getInsertPositionInLineFromText
\* returns with the flag off and the same fence predicate.
C20_PluginAgreesWithResolver ==
    (Called /\ ~addTimestampToListLines)
        => getInsertPositionInLine(lineText, timestampFormat, now) = pos[1]

(***************************************************************************)
(* A document as one text, its lines joined by newlines, and a position in *)
(* it as the number of characters before it.                               *)
(***************************************************************************)
RECURSIVE Flatten(_)
Flatten(d) ==
    IF Len(d) = 0 THEN <<>>
    ELSE IF Len(d) = 1 THEN d[1]
    ELSE d[1] \o <<"\n">> \o Flatten(Tail(d))

RECURSIVE CharsBeforeLine(_, _)
CharsBeforeLine(d, line) ==
    IF line = 0 THEN 0
    ELSE Len(d[line]) + 1 + CharsBeforeLine(d, line - 1)

CursorOffset(d, cur) == CharsBeforeLine(d, cur.line) + cur.ch

\* C18: the command "Insert timestamp at position" inserts the formatted
\* timestamp and its suffix at the cursor, whatever tiditOn and the cooldown
\* are, and leaves the cursor at the end of the inserted text, with the
\* space and with the newline as suffix.
C18_CommandInsertsAtCursor ==
    [][ CommandInsertTimestamp
          => LET timestamp == getFormattedTimestamp(settings, now)
                 at == CursorOffset(doc, cursor)
             IN  /\ Flatten(doc') = InsertAt(Flatten(doc), at, timestamp)
                 /\ CursorOffset(doc', cursor') = at + Len(timestamp) ]_vars

\* C18, the text: the timestamp and its suffix go in at the cursor, and with
\* the space as suffix the cursor is left behind them
C18_CommandInsertsText ==
    [][ CommandInsertTimestamp
          => LET timestamp == getFormattedTimestamp(settings, now)
                 at == CursorOffset(doc, cursor)
             IN  /\ Flatten(doc') = InsertAt(Flatten(doc), at, timestamp)
                 /\ ~settings.insertNewLineAfterTimestamp
                      => CursorOffset(doc', cursor') = at + Len(timestamp)
      ]_vars

\* C19: for every position of the cursor at a keyup, the line the handler
\* classifies (cursor line minus one) is the line it inserts into, and it is
\* the line before the cursor line, also with the cursor on the first line.
C19_InsertsIntoClassifiedLine ==
    [][ outcome' = "inserted"
          => LET k == cursor.line - 1 IN
             /\ k >= 0
             /\ SubSeq(doc', 1, k) = SubSeq(doc, 1, k)
             /\ doc'[k + 1] # doc[k + 1]
             /\ getInsertPositionInLine(doc[k + 1], settings.timestampFormat,
                                        now) # -1 ]_vars

\* C19, with the cursor behind the first line
C19_BehindFirstLine ==
    [][ (outcome' = "inserted" /\ cursor.line >= 1)
          => LET k == cursor.line - 1 IN
             /\ SubSeq(doc', 1, k) = SubSeq(doc, 1, k)
             /\ doc'[k + 1] # doc[k + 1]
             /\ getInsertPositionInLine(doc[k + 1], settings.timestampFormat,
                                        now) # -1 ]_vars

(***************************************************************************)
(* main.ts: the time zone settings and the timestamp they give.  Each of   *)
(* the three handlers stores its value and calls saveSettings.             *)
(***************************************************************************)
\* the texts typed into the field of the manual offset
OffsetEntries ==
    { <<"0">>, <<"6", "0">>, <<"-", "3", "0", "0">>, <<"1", "5">>, <<"a">> }

\* what a handler of the settings tab leaves alone when it stores a value
\* and starts a save
StoredAndSaving ==
    /\ savesInFlight < MaxSaves
    /\ savesInFlight' = savesInFlight + 1
    /\ guardedSince' = None
    /\ rendered' = NotRendered
    /\ NoKeyUp
    /\ UNCHANGED <<now, resolverVars, lastTimeStampInsertTimestamp,
                   currFileName, workspace, doc, cursor, seenFile>>

\* settings tab, "Timezone"
SetTimezone(value) ==
    /\ value # settings.timezone
    /\ settings' = [settings EXCEPT !.timezone = value]
    /\ StoredAndSaving

\* settings tab, "Use Manual Timezone Offset"
SetUseManualTimezoneOffset(value) ==
    /\ value # settings.useManualTimezoneOffset
    /\ settings' = [settings EXCEPT !.useManualTimezoneOffset = value]
    /\ StoredAndSaving

\* settings tab, "Manual Timezone Offset": a text that is no number is left
\* out
SetTimezoneOffset(value) ==
    LET offset == ParseInt(value) IN
    IF offset # NaN
    THEN /\ settings' = [settings EXCEPT !.timezoneOffset = offset]
         /\ StoredAndSaving
    ELSE /\ NoKeyUp
         /\ UNCHANGED <<now, resolverVars, zoneVars, settings,
                        lastTimeStampInsertTimestamp, currFileName, workspace,
                        doc, cursor, savesInFlight, seenFile, guardedSince>>

\* getFormattedTimestamp called: the moment it formats and the text it makes
Render ==
    /\ rendered' = << [moment |-> timestampMoment(settings, now),
                       text |-> getFormattedTimestamp(settings, now)] >>
    /\ NoKeyUp
    /\ UNCHANGED <<now, resolverVars, settings, lastTimeStampInsertTimestamp,
                   currFileName, workspace, doc, cursor, savesInFlight,
                   seenFile, guardedSince>>

ZInit ==
    /\ now = StartMs
    /\ PluginIdle
    /\ ResolverIdle

ZNext ==
    \/ \E value \in Zones : SetTimezone(value)
    \/ \E value \in BOOLEAN : SetUseManualTimezoneOffset(value)
    \/ \E value \in OffsetEntries : SetTimezoneOffset(value)
    \/ \E value \in BOOLEAN : SetInsertNewLine(value)
    \/ SaveSettingsResume
    \/ Render

SpecZone == ZInit /\ [][ZNext]_vars

\* the offset from UTC the settings ask for, in minutes
AskedUtcOffset(st) ==
    IF st.useManualTimezoneOffset /\ st.timezoneOffset # 0
    THEN st.timezoneOffset
    ELSE CASE st.timezone = "local" -> LocalUtcOffset
           [] st.timezone = "UTC" -> 0
           [] OTHER -> ZoneOffset(st.timezone)

\* the hour a clock ahead of UTC by offset minutes shows at instant t
HourAtOffset(t, offset) ==
    ((t - LocalUtcOffset * MsPerMinute + offset * MsPerMinute)
        \div MsPerHour) % 24

\* C17: the timestamp is shown with an offset from UTC equal to the manual
\* offset in minutes when useManualTimezoneOffset is true and timezoneOffset
\* is not 0, otherwise with the offset of the selected zone; in every case it
\* denotes the same instant.
C17_RenderedOffset ==
    rendered # NotRendered =>
      /\ rendered[1].moment.utcOffset = AskedUtcOffset(settings)
      /\ rendered[1].moment.instant = now
      /\ SubSeq(rendered[1].text, 1, 2)
            = Pad2(HourAtOffset(now, AskedUtcOffset(settings)))

\* C17, for the offsets of 16 minutes and more and for the zones
C17_RenderedOffsetFrom16 ==
    ( /\ rendered # NotRendered
      /\ ~( /\ settings.useManualTimezoneOffset
            /\ -16 < settings.timezoneOffset
            /\ settings.timezoneOffset < 16 ) )
    => /\ rendered[1].moment.utcOffset = AskedUtcOffset(settings)
       /\ rendered[1].moment.instant = now
       /\ SubSeq(rendered[1].text, 1, 2)
             = Pad2(HourAtOffset(now, AskedUtcOffset(settings)))

====
